---- MODULE Spec2Model ----
(***************************************************************************)
(* The session/trace manager of interactive/src/manager.rs: Manager,       *)
(* InputManager and TraceManager, as a state machine.                      *)
(*                                                                         *)
(* The manager runs on one worker thread, so its operations do not         *)
(* interleave.  Manager::advance_time is the one operation modelled step   *)
(* by step (one step per HashMap entry visited), because its loops can     *)
(* halt part-way on a precondition failure; pc records the position.       *)
(*                                                                         *)
(* InputSession, TraceAgent and Plan are defined outside manager.rs; the   *)
(* operators that stand for them follow the behaviour the design document  *)
(* gives them (sections 3 and 4).                                          *)
(***************************************************************************)
EXTENDS Integers, FiniteSets, Sequences, TLC

\* ------------------------------------------------------------------ bounds
MaxTime == 2
MaxCalls == 4
MaxPlanObjs == 2
MaxHeld == 1
MaxUpdates == 2
MaxBatches == 2
MaxEvents == 2

\* ------------------------------------------------------------- value sets
Names == {"a", "b"}
Times == 0 .. MaxTime
Records == {"r"}
Diffs == {1, -1}

TimelyLogNames ==
    { "logs/timely/operates", "logs/timely/channels",
      "logs/timely/schedule", "logs/timely/messages" }
DifferentialLogNames ==
    { "logs/differential/arrange/batch", "logs/differential/arrange/merge" }

\* The categories the demultiplexers match, and the collections of the
\* benchmark wrapper by their index in Collections.used.
TimelyCategories == { "Operates", "Channels", "Schedule", "Messages" }
DifferentialCategories == { "Batch", "Merge" }
Categories == TimelyCategories \cup DifferentialCategories
Indices == 0 .. 7

\* Plan::Source(name), and one composite variant over a Source.
Source(name) == [tag |-> "Source", name |-> name]
Distinct(name) == [tag |-> "Distinct", name |-> name]

\* The structures of the plans the callers build.
UserShapes == {Source(n) : n \in Names}
KeyedShapes == {Source("a"), Distinct("a")}
LogShapes == {Source(n) : n \in TimelyLogNames \cup DifferentialLogNames}
Shapes == UserShapes \cup KeyedShapes \cup LogShapes

\* A Plan value in memory: an object (obj) holding a structure (shape).
PlanObjs == [obj : 1 .. MaxPlanObjs, shape : UserShapes]
KeyedPlanObjs == [obj : 1 .. MaxPlanObjs, shape : KeyedShapes]

\* Sequences of projection-column indices.
Columns == { <<0, 1>>, <<1, 0>> }

\* A trace is named by the collection it indexes and the call it was built for.
NoTrace == <<"none", 0>>
IsUnkeyed(trace) == trace[1] = "unkeyed"
IsKeyed(trace) == trace[1] = "keyed"

\* The frontier &[] and the frontier &[t].
EmptyFrontier == {}
Frontier(t) == {t}

VARIABLES
    sessions,       \* InputManager.sessions: name -> [id, time]
    inputs,         \* TraceManager.inputs: plan -> trace
    arrangements,   \* TraceManager.arrangements: plan -> (columns -> trace)
    traceState,     \* per live trace: the advance and distinguish frontiers its handles share
    pc,             \* "idle", inside advance_time ("sessions", "arrangements"), "halted"
    advT,           \* the argument of the advance_time call in progress
    todo,           \* the sessions its loop has not visited
    before,         \* the times of the owned entities when the call began
    calls,          \* the calls made on the manager so far
    lastTime,       \* the time of the last advance_time call that returned, -1 for none
    lastOp,         \* the operation (or step) that led to the present state
    held,           \* the trace handles callers keep outside the manager
    engine,         \* per session: the updates it has handed to the engine
    replayed,       \* the telemetry batches the demultiplexers have consumed
    outputs,        \* per telemetry category: the messages sent on its output
    used,           \* Collections.used
    accessed,       \* the collections whose accessor has been called
    lastAccess      \* the last operation on the Collections

vars == << sessions, inputs, arrangements, traceState, pc, advT, todo, before,
           calls, lastTime, lastOp, held, engine, replayed, outputs, used, accessed,
           lastAccess >>

\* The state of the manager; of the telemetry dataflows and of the benchmark
\* wrapper, which no operation of the manager touches.
managerVars == << sessions, inputs, arrangements, traceState, pc, advT, todo, before,
                  calls, lastTime, lastOp, held, engine >>
benchVars == << used, accessed, lastAccess >>
elsewhere == << replayed, outputs, benchVars >>

\* ------------------------------------------------------------ HashMap
EmptyMap == [k \in {} |-> NoTrace]
Insert(map, k, v) == [x \in DOMAIN map \cup {k} |-> IF x = k THEN v ELSE map[x]]
Values(map) == { map[k] : k \in DOMAIN map }

\* ------------------------------------------------------------ Plan
\* Plan derives Eq and Hash: a plan addresses a map by its structure.
PlanKey(plan) == plan.shape

\* ------------------------------------------------------------ TraceAgent
\* A trace as its arrangement leaves it: both frontiers at the least time.
NewTrace == [advance |-> Frontier(0), through |-> Frontier(0)]

\* f1 is less or equal f2: every time of f2 is at or after a time of f1.
FrontierLessEqual(f1, f2) == \A t2 \in f2 : \E t1 \in f1 : t1 <= t2

distinguish_since(ts, trace, frontier) ==
    [ts EXCEPT ![trace].through = frontier]

CanAdvanceBy(ts, trace, frontier) == FrontierLessEqual(ts[trace].advance, frontier)
advance_by(ts, trace, frontier) ==
    [ts EXCEPT ![trace].advance = frontier]

\* advance_by(frontier) on each trace of a set, one after the other.
AdvanceAll(ts, traces, frontier) ==
    [t \in DOMAIN ts |-> IF t \in traces THEN advance_by(ts, t, frontier)[t] ELSE ts[t]]

\* The handle a caller passes: to a trace it has just arranged, or one it got
\* from the manager.
WithHandle(ts, trace) == IF trace \in DOMAIN ts THEN ts ELSE Insert(ts, trace, NewTrace)

\* A trace is released when the last handle to it is dropped.
Release(ts, live) == [t \in DOMAIN ts \cap live |-> ts[t]]

\* The collection a trace indexes: the updates the engine has received from
\* the session the trace was arranged from.
Collection(eng, trace) ==
    IF IsUnkeyed(trace) /\ trace[2] \in DOMAIN eng THEN eng[trace[2]] ELSE << >>

\* The sum of the diffs of the updates of a sequence, chosen by index.
RECURSIVE SumDiffs(_, _)
SumDiffs(updates, indices) ==
    IF indices = {} THEN 0
    ELSE LET i == CHOOSE j \in indices : TRUE
         IN  updates[i][3] + SumDiffs(updates, indices \ {i})

\* The multiplicity a collection gives a record at a time: the sum of the
\* diffs of its updates at times up to that time.
Multiplicity(updates, record, time) ==
    SumDiffs(updates, { i \in DOMAIN updates :
                          updates[i][1] = record /\ updates[i][2] <= time })

\* The time an update is moved to when the trace compacts it under an advance
\* frontier.
AdvancedTime(time, frontier) ==
    IF \E f \in frontier : time < f THEN CHOOSE f \in frontier : time < f ELSE time

\* The multiplicities a trace can show for a record at a time: the engine may
\* have moved any of the updates before the advance frontier up to it.
Accumulations(ts, eng, trace, record, time) ==
    LET updates == Collection(eng, trace)
        early == { i \in DOMAIN updates :
                     AdvancedTime(updates[i][2], ts[trace].advance) # updates[i][2] }
    IN  { SumDiffs(updates,
                   { i \in DOMAIN updates :
                       /\ updates[i][1] = record
                       /\ (IF i \in moved
                           THEN AdvancedTime(updates[i][2], ts[trace].advance)
                           ELSE updates[i][2]) <= time }) :
          moved \in SUBSET early }

\* ------------------------------------------------------------ InputSession
\* A session holds its time and the updates made since its last flush, each
\* (record, time, diff) stamped with the session's time when it was made; made
\* lists every update its caller has made on it.
NewSession(id) == [id |-> id, time |-> 0, buffer |-> << >>, made |-> << >>]
update(session, record, diff) ==
    [session EXCEPT !.buffer = Append(@, << record, session.time, diff >>),
                    !.made = Append(@, << record, session.time, diff >>)]
CanAdvanceTo(session, time) == session.time <= time
advance_to(session, time) == [session EXCEPT !.time = time]
\* flush hands the buffer to the engine, in order, and leaves it empty.
flush(session) == [session EXCEPT !.buffer = << >>]
Received(eng, id) == IF id \in DOMAIN eng THEN eng[id] ELSE << >>
Flushed(eng, session) ==
    IF session.buffer = << >> THEN eng
    ELSE Insert(eng, session.id, Received(eng, session.id) \o session.buffer)

\* ------------------------------------------------------------ TraceManager
\* get_unkeyed that hands out a trace of its own, a copy, not the cached one.
get_unkeyed_copy(plan) ==
    IF PlanKey(plan) \in DOMAIN inputs THEN << inputs[PlanKey(plan)][1], 0 >> ELSE NoTrace

get_unkeyed(plan) ==
    IF PlanKey(plan) \in DOMAIN inputs THEN inputs[PlanKey(plan)] ELSE NoTrace

\* get_keyed that looks the plan up and takes an entry of its map without
\* comparing the key sequence.
get_keyed_any_columns(plan, keys) ==
    IF PlanKey(plan) \in DOMAIN arrangements
    THEN arrangements[PlanKey(plan)][CHOOSE k \in DOMAIN arrangements[PlanKey(plan)] : TRUE]
    ELSE NoTrace

get_keyed(plan, keys) ==
    IF PlanKey(plan) \in DOMAIN arrangements
    THEN IF keys \in DOMAIN arrangements[PlanKey(plan)]
         THEN arrangements[PlanKey(plan)][keys]
         ELSE NoTrace
    ELSE NoTrace

\* The TraceManager, with the traces its handles point to.
TraceManager == [inputs |-> inputs, arrangements |-> arrangements, traceState |-> traceState]

\* set_unkeyed with entry(plan).or_insert(handle): an entry already there stays.
set_unkeyed_keeps_first(st, plan, handle) ==
    IF PlanKey(plan) \in DOMAIN st.inputs THEN st
    ELSE [ st EXCEPT
             !.inputs = Insert(@, PlanKey(plan), handle),
             !.traceState = distinguish_since(WithHandle(@, handle), handle, EmptyFrontier) ]

\* set_unkeyed without the call of distinguish_since.
set_unkeyed_keeps_horizon(st, plan, handle) ==
    [ st EXCEPT
        !.inputs = Insert(@, PlanKey(plan), handle),
        !.traceState = WithHandle(@, handle) ]

\* set_unkeyed: clone the handle, force its distinguish frontier to empty,
\* insert it under the plan.
set_unkeyed(st, plan, handle) ==
    [ st EXCEPT
        !.inputs = Insert(@, PlanKey(plan), handle),
        !.traceState = distinguish_since(WithHandle(@, handle), handle, EmptyFrontier) ]

\* set_keyed that sorts the key sequence before it stores under it.
SortedKeys(keys) ==
    CHOOSE s \in [1 .. Len(keys) -> {keys[i] : i \in 1 .. Len(keys)}] :
        /\ \A i \in 1 .. Len(keys) : \E j \in 1 .. Len(keys) : s[j] = keys[i]
        /\ \A i \in 1 .. Len(keys) - 1 : s[i] <= s[i + 1]
set_keyed_sorted_columns(st, plan, keys, handle) ==
    [ st EXCEPT
        !.arrangements =
            Insert(@, PlanKey(plan),
                   Insert(IF PlanKey(plan) \in DOMAIN @ THEN @[PlanKey(plan)] ELSE EmptyMap,
                          SortedKeys(keys), handle)),
        !.traceState = distinguish_since(WithHandle(@, handle), handle, EmptyFrontier) ]

\* set_keyed: the same, under the plan's map of key sequences.
set_keyed(st, plan, keys, handle) ==
    [ st EXCEPT
        !.arrangements =
            Insert(@, PlanKey(plan),
                   Insert(IF PlanKey(plan) \in DOMAIN @ THEN @[PlanKey(plan)] ELSE EmptyMap,
                          keys, handle)),
        !.traceState = distinguish_since(WithHandle(@, handle), handle, EmptyFrontier) ]

\* The traces the maps of a manager hold.
Cached(st) ==
    Values(st.inputs) \cup
    UNION { Values(st.arrangements[p]) : p \in DOMAIN st.arrangements }

\* The manager's fields after a call, the traces nobody holds any more released.
Store(st) ==
    /\ inputs' = st.inputs
    /\ arrangements' = st.arrangements
    /\ traceState' = Release(st.traceState, Cached(st) \cup {h.trace : h \in held})

\* ------------------------------------------------------------ operations
\* No name, no session, no time, no snapshot.
NoName == ""
NoSession == 0
NoTime == -1
NoBefore == [sessions |-> EmptyMap, traces |-> EmptyMap, engine |-> EmptyMap]

\* What an operation did, as its caller states it: the plans (by structure)
\* and traces it handed to set_unkeyed and set_keyed, the session it gave; and
\* what it found: how many sessions and traces the manager held, the session
\* that was under the name, the trace that was under the plan.
Op(op, name, session, unkeyed, keyed, time) ==
    [ op |-> op, name |-> name, session |-> session,
      unkeyed |-> unkeyed, keyed |-> keyed, time |-> time,
      held |-> Cardinality(DOMAIN sessions) + Cardinality(Cached(TraceManager)),
      oldSession |-> IF name \in DOMAIN sessions THEN sessions[name].id ELSE NoSession,
      oldTrace |-> IF Cardinality(DOMAIN unkeyed) = 1 /\ DOMAIN unkeyed \subseteq DOMAIN inputs
                   THEN inputs[CHOOSE k \in DOMAIN unkeyed : TRUE]
                   ELSE NoTrace ]

\* What a caller can pass to the present call: the session or the trace it
\* builds for it, or a handle it got from the manager.
FreshSession == calls + 1
Owned == { sessions[n].id : n \in DOMAIN sessions }
FreshTrace(kind) == << kind, calls + 1 >>
HeldTraces == { h.trace : h \in held }
UnkeyedHandles ==
    {FreshTrace("unkeyed")} \cup { t \in Values(inputs) \cup HeldTraces : IsUnkeyed(t) }
KeyedHandles ==
    {FreshTrace("keyed")} \cup { t \in Cached(TraceManager) \cup HeldTraces : IsKeyed(t) }

\* A call is made on a manager that is not inside another call.
Call ==
    /\ pc = "idle"
    /\ calls < MaxCalls
    /\ calls' = calls + 1

Init ==
    /\ sessions = EmptyMap
    /\ inputs = EmptyMap
    /\ arrangements = EmptyMap
    /\ traceState = EmptyMap
    /\ pc = "idle"
    /\ advT = NoTime
    /\ todo = {}
    /\ before = NoBefore
    /\ calls = 0
    /\ lastTime = NoTime
    /\ lastOp = Op("new", NoName, NoSession, EmptyMap, EmptyMap, NoTime)
    /\ held = {}
    /\ engine = EmptyMap
    /\ replayed = << >>
    /\ outputs = [c \in Categories |-> << >>]
    /\ used = [i \in Indices |-> FALSE]
    /\ accessed = {}
    /\ lastAccess = "new"

\* shutdown that clears the sessions and the inputs and leaves the arrangements.
shutdown_keeps_arrangements ==
    /\ Call
    /\ sessions' = EmptyMap
    /\ Store([TraceManager EXCEPT !.inputs = EmptyMap])
    /\ lastOp' = Op("shutdown", NoName, NoSession, EmptyMap, EmptyMap, NoTime)
    /\ UNCHANGED << pc, advT, todo, before, lastTime >>
    /\ UNCHANGED << held, engine, elsewhere >>

\* shutdown that clears the traces and leaves the sessions.
shutdown_keeps_sessions ==
    /\ Call
    /\ sessions' = sessions
    /\ Store([TraceManager EXCEPT !.inputs = EmptyMap, !.arrangements = EmptyMap])
    /\ lastOp' = Op("shutdown", NoName, NoSession, EmptyMap, EmptyMap, NoTime)
    /\ UNCHANGED << pc, advT, todo, before, lastTime >>
    /\ UNCHANGED << held, engine, elsewhere >>

shutdown ==
    /\ Call
    /\ sessions' = EmptyMap
    /\ Store([TraceManager EXCEPT !.inputs = EmptyMap, !.arrangements = EmptyMap])
    /\ lastOp' = Op("shutdown", NoName, NoSession, EmptyMap, EmptyMap, NoTime)
    /\ UNCHANGED << pc, advT, todo, before, lastTime >>
    /\ UNCHANGED << held, engine, elsewhere >>

\* insert_input that files the trace under the name as a composite plan, not
\* under Plan::Source(name).
insert_input_other_plan(name, id, trace) ==
    /\ Call
    /\ sessions' = Insert(sessions, name, NewSession(id))
    /\ Store(set_unkeyed(TraceManager, [obj |-> 1, shape |-> Distinct(name)], trace))
    /\ lastOp' = Op("insert_input", name, id,
                    Insert(EmptyMap, Source(name), trace), EmptyMap, NoTime)
    /\ UNCHANGED << pc, advT, todo, before, lastTime >>
    /\ UNCHANGED << held, engine, elsewhere >>

\* insert_input with sessions.entry(name).or_insert(input): a session already
\* under the name stays.
insert_input_keeps_session(name, id, trace) ==
    /\ Call
    /\ sessions' = IF name \in DOMAIN sessions THEN sessions
                   ELSE Insert(sessions, name, NewSession(id))
    /\ Store(set_unkeyed(TraceManager, [obj |-> 1, shape |-> Source(name)], trace))
    /\ lastOp' = Op("insert_input", name, id,
                    Insert(EmptyMap, Source(name), trace), EmptyMap, NoTime)
    /\ UNCHANGED << pc, advT, todo, before, lastTime >>
    /\ UNCHANGED << held, engine, elsewhere >>

\* insert_input(name, input, trace), with a session the caller has just created.
insert_input(name, id, trace) ==
    /\ Call
    /\ sessions' = Insert(sessions, name, NewSession(id))
    /\ Store(set_unkeyed(TraceManager, [obj |-> 1, shape |-> Source(name)], trace))
    /\ lastOp' = Op("insert_input", name, id,
                    Insert(EmptyMap, Source(name), trace), EmptyMap, NoTime)
    /\ UNCHANGED << pc, advT, todo, before, lastTime >>
    /\ UNCHANGED << held, engine, elsewhere >>

\* A caller's own traces.set_unkeyed(plan, handle).
call_set_unkeyed(plan, handle) ==
    /\ Call
    /\ Store(set_unkeyed(TraceManager, plan, handle))
    /\ lastOp' = Op("set_unkeyed", NoName, NoSession,
                    Insert(EmptyMap, plan.shape, handle), EmptyMap, NoTime)
    /\ UNCHANGED << sessions, pc, advT, todo, before, lastTime >>
    /\ UNCHANGED << held, engine, elsewhere >>

\* A caller's own traces.set_keyed(plan, keys, handle).
call_set_keyed(plan, keys, handle) ==
    /\ Call
    /\ Store(set_keyed(TraceManager, plan, keys, handle))
    /\ lastOp' = Op("set_keyed", NoName, NoSession, EmptyMap,
                    Insert(EmptyMap, <<plan.shape, keys>>, handle), NoTime)
    /\ UNCHANGED << sessions, pc, advT, todo, before, lastTime >>
    /\ UNCHANGED << held, engine, elsewhere >>

\* The traces a publish_*_logging dataflow returns: the arrangement of each
\* output of its demultiplexer, named by the category that output carries.
TimelyTraces(gen) ==
    [ operates |-> << "Operates", gen >>, channels |-> << "Channels", gen >>,
      schedule |-> << "Schedule", gen >>, messages |-> << "Messages", gen >> ]
DifferentialTraces(gen) ==
    [ batch |-> << "Batch", gen >>, merge |-> << "Merge", gen >> ]

\* The set_unkeyed calls that end a publish_*_logging call: one per pair of
\* (name, trace), in the order given.
RECURSIVE PublishAll(_, _)
PublishAll(st, pairs) ==
    IF pairs = << >> THEN st
    ELSE PublishAll(set_unkeyed(st, [obj |-> 1, shape |-> Source(Head(pairs)[1])],
                                Head(pairs)[2]),
                    Tail(pairs))

TimelyOrder(traces) ==
    << << "logs/timely/operates", traces.operates >>,
       << "logs/timely/channels", traces.channels >>,
       << "logs/timely/schedule", traces.schedule >>,
       << "logs/timely/messages", traces.messages >> >>
DifferentialOrder(traces) ==
    << << "logs/differential/arrange/batch", traces.batch >>,
       << "logs/differential/arrange/merge", traces.merge >> >>

\* The plans and traces a sequence of pairs hands to set_unkeyed.
Published(pairs) ==
    [ s \in {Source(pairs[i][1]) : i \in 1 .. Len(pairs)} |->
        pairs[CHOOSE i \in 1 .. Len(pairs) : pairs[i][1] = s.name][2] ]

publish_timely_logging ==
    /\ Call
    /\ LET pairs == TimelyOrder(TimelyTraces(calls + 1))
       IN  /\ Store(PublishAll(TraceManager, pairs))
           /\ lastOp' = Op("publish_timely_logging", NoName, NoSession,
                           Published(pairs), EmptyMap, NoTime)
    /\ UNCHANGED << sessions, pc, advT, todo, before, lastTime >>
    /\ UNCHANGED << held, engine, elsewhere >>

\* publish_differential_logging whose dataflow returns (batch, merge) where the
\* caller binds (merge, batch): each trace is filed under the other's name.
publish_differential_logging_swapped ==
    /\ Call
    /\ LET traces == DifferentialTraces(calls + 1)
           pairs == DifferentialOrder([batch |-> traces.merge, merge |-> traces.batch])
       IN  /\ Store(PublishAll(TraceManager, pairs))
           /\ lastOp' = Op("publish_differential_logging", NoName, NoSession,
                           Published(pairs), EmptyMap, NoTime)
    /\ UNCHANGED << sessions, pc, advT, todo, before, lastTime >>
    /\ UNCHANGED << held, engine, elsewhere >>

publish_differential_logging ==
    /\ Call
    /\ LET pairs == DifferentialOrder(DifferentialTraces(calls + 1))
       IN  /\ Store(PublishAll(TraceManager, pairs))
           /\ lastOp' = Op("publish_differential_logging", NoName, NoSession,
                           Published(pairs), EmptyMap, NoTime)
    /\ UNCHANGED << sessions, pc, advT, todo, before, lastTime >>
    /\ UNCHANGED << held, engine, elsewhere >>

\* The updates held anywhere: in the sessions' buffers and in the engine.
RECURSIVE TotalLen(_, _)
TotalLen(map, keys) ==
    IF keys = {} THEN 0
    ELSE LET k == CHOOSE x \in keys : TRUE
         IN  Len(map[k]) + TotalLen(map, keys \ {k})
Updates ==
    TotalLen([n \in DOMAIN sessions |-> sessions[n].buffer], DOMAIN sessions)
      + TotalLen(engine, DOMAIN engine)

\* A caller's inputs.sessions[name].update(record, diff), between two calls.
session_update(name, record, diff) ==
    /\ pc = "idle"
    /\ name \in DOMAIN sessions
    /\ Updates < MaxUpdates
    /\ sessions' = [sessions EXCEPT ![name] = update(@, record, diff)]
    /\ lastOp' = Op("update", name, sessions[name].id, EmptyMap, EmptyMap, NoTime)
    /\ UNCHANGED << inputs, arrangements, traceState, pc, advT, todo, before, calls,
                    lastTime >>
    /\ UNCHANGED << held, engine, elsewhere >>

\* A caller's traces.get_unkeyed(plan), the handle returned kept by the caller;
\* entry is the trace the cache holds under the plan at that moment.
take_unkeyed(plan) ==
    /\ Call
    /\ Cardinality(held) < MaxHeld
    /\ PlanKey(plan) \in DOMAIN inputs
    /\ held' = held \cup { [trace |-> get_unkeyed(plan), entry |-> inputs[PlanKey(plan)]] }
    /\ traceState' = WithHandle(traceState, get_unkeyed(plan))
    /\ lastOp' = Op("get_unkeyed", NoName, NoSession, EmptyMap, EmptyMap, NoTime)
    /\ UNCHANGED << sessions, inputs, arrangements, pc, advT, todo, before, lastTime >>
    /\ UNCHANGED << engine, elsewhere >>

\* A caller's traces.get_keyed(plan, keys), the handle returned kept.
take_keyed(plan, keys) ==
    /\ Call
    /\ Cardinality(held) < MaxHeld
    /\ PlanKey(plan) \in DOMAIN arrangements
    /\ keys \in DOMAIN arrangements[PlanKey(plan)]
    /\ held' = held \cup { [trace |-> get_keyed(plan, keys),
                            entry |-> arrangements[PlanKey(plan)][keys]] }
    /\ traceState' = WithHandle(traceState, get_keyed(plan, keys))
    /\ lastOp' = Op("get_keyed", NoName, NoSession, EmptyMap, EmptyMap, NoTime)
    /\ UNCHANGED << sessions, inputs, arrangements, pc, advT, todo, before, lastTime >>
    /\ UNCHANGED << engine, elsewhere >>

\* ------------------------------------------------------------ advance_time
StepOp(op) == Op(op, NoName, NoSession, EmptyMap, EmptyMap, advT)

\* Manager::advance_time(time) is entered: InputManager::advance_time starts
\* its loop over sessions.values_mut().
advance_time(time) ==
    /\ pc = "idle"
    /\ calls < MaxCalls
    /\ calls' = calls + 1
    /\ pc' = "sessions"
    /\ advT' = time
    /\ todo' = DOMAIN sessions
    /\ before' = [ sessions |-> [n \in DOMAIN sessions |-> sessions[n]],
                   traces |-> traceState, engine |-> engine ]
    /\ lastOp' = Op("advance_time:enter", NoName, NoSession, EmptyMap, EmptyMap, time)
    /\ UNCHANGED << sessions, inputs, arrangements, traceState, lastTime >>
    /\ UNCHANGED << held, engine, elsewhere >>

\* A loop that ends after its first iteration.
advance_session_only_first(name) ==
    /\ pc = "sessions"
    /\ name \in todo
    /\ IF CanAdvanceTo(sessions[name], advT)
       THEN /\ sessions' = [sessions EXCEPT ![name] = flush(advance_to(@, advT))]
            /\ engine' = Flushed(engine, advance_to(sessions[name], advT))
            /\ todo' = {}
            /\ pc' = pc
            /\ lastOp' = StepOp("advance_time:session")
       ELSE /\ pc' = "halted"
            /\ lastOp' = StepOp("advance_time:halt")
            /\ UNCHANGED << sessions, todo, engine >>
    /\ UNCHANGED << inputs, arrangements, traceState, advT, before, calls, lastTime >>
    /\ UNCHANGED << held, elsewhere >>

\* An iteration of the loop that calls advance_to and leaves out flush.
advance_session_no_flush(name) ==
    /\ pc = "sessions"
    /\ name \in todo
    /\ IF CanAdvanceTo(sessions[name], advT)
       THEN /\ sessions' = [sessions EXCEPT ![name] = advance_to(@, advT)]
            /\ todo' = todo \ {name}
            /\ pc' = pc
            /\ lastOp' = StepOp("advance_time:session")
       ELSE /\ pc' = "halted"
            /\ lastOp' = StepOp("advance_time:halt")
            /\ UNCHANGED << sessions, todo >>
    /\ UNCHANGED << inputs, arrangements, traceState, advT, before, calls, lastTime >>
    /\ UNCHANGED << held, engine, elsewhere >>

\* One iteration of the loop over the sessions, in the map's order.
advance_session(name) ==
    /\ pc = "sessions"
    /\ name \in todo
    /\ IF CanAdvanceTo(sessions[name], advT)
       THEN /\ sessions' = [sessions EXCEPT ![name] = flush(advance_to(@, advT))]
            /\ engine' = Flushed(engine, advance_to(sessions[name], advT))
            /\ todo' = todo \ {name}
            /\ pc' = pc
            /\ lastOp' = StepOp("advance_time:session")
       ELSE /\ pc' = "halted"
            /\ lastOp' = StepOp("advance_time:halt")
            /\ UNCHANGED << sessions, todo, engine >>
    /\ UNCHANGED << inputs, arrangements, traceState, advT, before, calls, lastTime >>
    /\ UNCHANGED << held, elsewhere >>

\* The entries of a map whose trace refuses advance_by(&[advT]).
Refused(trace_of, entries) ==
    { e \in entries : ~ CanAdvanceBy(traceState, trace_of[e], Frontier(advT)) }

\* TraceManager::advance_time with frontier = &[time + 1].
advance_unkeyed_beyond ==
    /\ pc = "sessions"
    /\ todo = {}
    /\ \E visited \in SUBSET (DOMAIN inputs) :
       /\ LET refused == Refused(inputs, DOMAIN inputs)
          IN  IF refused = {}
              THEN /\ visited = DOMAIN inputs
                   /\ pc' = "arrangements"
                   /\ lastOp' = StepOp("advance_time:inputs")
              ELSE /\ visited \subseteq (DOMAIN inputs) \ refused
                   /\ pc' = "halted"
                   /\ lastOp' = StepOp("advance_time:halt")
       /\ traceState' = AdvanceAll(traceState, {inputs[k] : k \in visited}, Frontier(advT + 1))
    /\ UNCHANGED << sessions, inputs, arrangements, advT, todo, before, calls, lastTime >>
    /\ UNCHANGED << held, engine, elsewhere >>

\* Manager::advance_time that calls traces.advance_time before
\* inputs.advance_time has visited every session.
advance_unkeyed_early ==
    /\ pc = "sessions"
    /\ \E visited \in SUBSET (DOMAIN inputs) :
       /\ LET refused == Refused(inputs, DOMAIN inputs)
          IN  IF refused = {}
              THEN /\ visited = DOMAIN inputs
                   /\ pc' = "arrangements"
                   /\ lastOp' = StepOp("advance_time:inputs")
              ELSE /\ visited \subseteq (DOMAIN inputs) \ refused
                   /\ pc' = "halted"
                   /\ lastOp' = StepOp("advance_time:halt")
       /\ traceState' = AdvanceAll(traceState, {inputs[k] : k \in visited}, Frontier(advT))
    /\ UNCHANGED << sessions, inputs, arrangements, advT, todo, before, calls, lastTime >>
    /\ UNCHANGED << held, engine, elsewhere >>

\* InputManager::advance_time has returned; TraceManager::advance_time runs its
\* loop over inputs.values_mut(), in the map's order: to the end, or up to the
\* first trace that refuses, after any of the others.
advance_unkeyed ==
    /\ pc = "sessions"
    /\ todo = {}
    /\ \E visited \in SUBSET (DOMAIN inputs) :
       /\ LET refused == Refused(inputs, DOMAIN inputs)
          IN  IF refused = {}
              THEN /\ visited = DOMAIN inputs
                   /\ pc' = "arrangements"
                   /\ lastOp' = StepOp("advance_time:inputs")
              ELSE /\ visited \subseteq (DOMAIN inputs) \ refused
                   /\ pc' = "halted"
                   /\ lastOp' = StepOp("advance_time:halt")
       /\ traceState' = AdvanceAll(traceState, {inputs[k] : k \in visited}, Frontier(advT))
    /\ UNCHANGED << sessions, inputs, arrangements, advT, todo, before, calls, lastTime >>
    /\ UNCHANGED << held, engine, elsewhere >>

\* The entries of arrangements, as (plan, keys), and the trace of each.
KeyedEntries ==
    { e \in (DOMAIN arrangements) \X Columns : e[2] \in DOMAIN arrangements[e[1]] }
KeyedTraceOf == [e \in KeyedEntries |-> arrangements[e[1]][e[2]]]

\* TraceManager::advance_time without its loop over arrangements.
advance_keyed_skips ==
    /\ pc = "arrangements"
    /\ pc' = "idle"
    /\ lastTime' = advT
    /\ advT' = NoTime
    /\ before' = NoBefore
    /\ lastOp' = Op("advance_time", NoName, NoSession, EmptyMap, EmptyMap, advT)
    /\ UNCHANGED << sessions, inputs, arrangements, traceState, todo, calls >>
    /\ UNCHANGED << held, engine, elsewhere >>

\* The loop over arrangements.values_mut() and, inside, over map.values_mut():
\* to the end, and then Manager::advance_time returns; or up to the first trace
\* that refuses, after some whole maps and some entries of the map it is in.
advance_keyed ==
    /\ pc = "arrangements"
    /\ \E visited \in SUBSET KeyedEntries :
       /\ LET refused == Refused(KeyedTraceOf, KeyedEntries)
          IN  IF refused = {}
              THEN /\ visited = KeyedEntries
                   /\ pc' = "idle"
                   /\ lastTime' = advT
                   /\ advT' = NoTime
                   /\ before' = NoBefore
                   /\ lastOp' = Op("advance_time", NoName, NoSession, EmptyMap, EmptyMap, advT)
              ELSE /\ visited \subseteq KeyedEntries \ refused
                   /\ \E at \in refused :
                        \A p \in DOMAIN arrangements :
                           LET whole == { e \in KeyedEntries : e[1] = p }
                           IN  \/ p = at[1]
                               \/ whole \cap visited = {}
                               \/ whole \subseteq visited
                   /\ pc' = "halted"
                   /\ lastOp' = StepOp("advance_time:halt")
                   /\ UNCHANGED << lastTime, advT, before >>
       /\ traceState' = AdvanceAll(traceState, {KeyedTraceOf[e] : e \in visited}, Frontier(advT))
    /\ UNCHANGED << sessions, inputs, arrangements, todo, calls >>
    /\ UNCHANGED << held, engine, elsewhere >>

Next ==
    \/ shutdown
    \/ \E name \in Names, trace \in UnkeyedHandles :
          insert_input(name, FreshSession, trace)
    \/ \E plan \in PlanObjs, trace \in UnkeyedHandles : call_set_unkeyed(plan, trace)
    \/ \E plan \in KeyedPlanObjs, keys \in Columns, trace \in KeyedHandles :
          call_set_keyed(plan, keys, trace)
    \/ publish_timely_logging
    \/ publish_differential_logging
    \/ \E time \in Times : advance_time(time)
    \/ \E name \in Names : advance_session(name)
    \/ advance_unkeyed
    \/ advance_keyed

Spec == Init /\ [][Next]_vars

\* The manager with callers that keep the handles they get from it.
NextHandles ==
    \/ shutdown
    \/ \E name \in Names, trace \in UnkeyedHandles :
          insert_input(name, FreshSession, trace)
    \/ \E plan \in PlanObjs, trace \in UnkeyedHandles : call_set_unkeyed(plan, trace)
    \/ \E plan \in KeyedPlanObjs, keys \in Columns, trace \in KeyedHandles :
          call_set_keyed(plan, keys, trace)
    \/ \E plan \in PlanObjs : take_unkeyed(plan)
    \/ \E plan \in KeyedPlanObjs, keys \in Columns : take_keyed(plan, keys)
    \/ \E time \in Times : advance_time(time)
    \/ \E name \in Names : advance_session(name)
    \/ advance_unkeyed
    \/ advance_keyed

SpecHandles == Init /\ [][NextHandles]_vars

\* The manager with callers that arrange each input they register, arrange it
\* by key as well, and send updates into the sessions the manager owns.
NextData ==
    \/ \E name \in Names : insert_input(name, FreshSession, FreshTrace("unkeyed"))
    \/ \E keys \in Columns :
          call_set_keyed([obj |-> 1, shape |-> Distinct("a")], keys, FreshTrace("keyed"))
    \/ \E name \in Names, record \in Records, diff \in Diffs :
          session_update(name, record, diff)
    \/ \E time \in Times : advance_time(time)
    \/ \E name \in Names : advance_session(name)
    \/ advance_unkeyed
    \/ advance_keyed

SpecData == Init /\ [][NextData]_vars

\* ------------------------------------------------------------ logging demux
\* The variants of TimelyEvent and DifferentialEvent: the ones the match arms
\* name and one of the others.
TimelyTags == TimelyCategories \cup {"Progress"}
DifferentialTags == DifferentialCategories \cup {"Unrelated"}

\* A logged event (time, worker, datum) that a batch at a time can carry.
BatchTimes == {0, 1}
LoggedEvents(tags, time) ==
    { << t, 0, [tag |-> tag, payload |-> "p"] >> : t \in {time, time + 1}, tag \in tags }

\* The sequences over a set of length up to n.
SeqsUpTo(S, n) == UNION { [1 .. k -> S] : k \in 0 .. n }

\* AsVector::as_vector: the event as a flat record.
as_vector(datum) == << datum.tag, datum.payload >>

\* session.give(data) on the session an output opened at the batch's time.
give(out, category, session_time, data) ==
    [out EXCEPT ![category] = Append(@, [time |-> session_time, data |-> data])]

\* The match of the timely demux with the Schedule arm giving to channels_session.
timely_match_wrong_session(out, session_time, time, datum) ==
    CASE datum.tag = "Operates" -> give(out, "Operates", session_time, << as_vector(datum), time, 1 >>)
      [] datum.tag = "Channels" -> give(out, "Channels", session_time, << as_vector(datum), time, 1 >>)
      [] datum.tag = "Schedule" -> give(out, "Channels", session_time, << as_vector(datum), time, 1 >>)
      [] datum.tag = "Messages" -> give(out, "Messages", session_time, << as_vector(datum), time, 1 >>)
      [] OTHER -> out

\* The match on one (time, _worker, datum) of a timely batch.
timely_match(out, session_time, time, datum) ==
    CASE datum.tag = "Operates" -> give(out, "Operates", session_time, << as_vector(datum), time, 1 >>)
      [] datum.tag = "Channels" -> give(out, "Channels", session_time, << as_vector(datum), time, 1 >>)
      [] datum.tag = "Schedule" -> give(out, "Schedule", session_time, << as_vector(datum), time, 1 >>)
      [] datum.tag = "Messages" -> give(out, "Messages", session_time, << as_vector(datum), time, 1 >>)
      [] OTHER -> out

\* The match of the differential demux that stamps a record with the time of
\* the session, not with the time of its event.
differential_match_session_time(out, session_time, time, datum) ==
    CASE datum.tag = "Batch" -> give(out, "Batch", session_time, << as_vector(datum), session_time, 1 >>)
      [] datum.tag = "Merge" -> give(out, "Merge", session_time, << as_vector(datum), session_time, 1 >>)
      [] OTHER -> out

\* The match on one (time, _worker, datum) of a differential batch.
differential_match(out, session_time, time, datum) ==
    CASE datum.tag = "Batch" -> give(out, "Batch", session_time, << as_vector(datum), time, 1 >>)
      [] datum.tag = "Merge" -> give(out, "Merge", session_time, << as_vector(datum), time, 1 >>)
      [] OTHER -> out

\* for (time, _worker, datum) in demux_buffer.drain(..): the match on each
\* event of the batch, in order.
RECURSIVE TimelyDrain(_, _, _)
TimelyDrain(out, session_time, buffer) ==
    IF buffer = << >> THEN out
    ELSE TimelyDrain(timely_match(out, session_time, Head(buffer)[1], Head(buffer)[3]),
                     session_time, Tail(buffer))
RECURSIVE DifferentialDrain(_, _, _)
DifferentialDrain(out, session_time, buffer) ==
    IF buffer = << >> THEN out
    ELSE DifferentialDrain(differential_match(out, session_time, Head(buffer)[1], Head(buffer)[3]),
                           session_time, Tail(buffer))

\* The events consumed so far.
RECURSIVE Consumed(_)
Consumed(batches) ==
    IF batches = << >> THEN 0 ELSE Len(Head(batches).data) + Consumed(Tail(batches))

\* The closure of input.for_each in "Timely Logging Demux", on one batch.
timely_logging_demux(time, data) ==
    /\ Len(replayed) < MaxBatches
    /\ Consumed(replayed) + Len(data) <= MaxEvents
    /\ replayed' = Append(replayed, [kind |-> "timely", time |-> time, data |-> data])
    /\ outputs' = TimelyDrain(outputs, time, data)
    /\ UNCHANGED << managerVars, benchVars >>

\* The closure of input.for_each in "Differential Logging Demux", on one batch.
differential_logging_demux(time, data) ==
    /\ Len(replayed) < MaxBatches
    /\ Consumed(replayed) + Len(data) <= MaxEvents
    /\ replayed' = Append(replayed, [kind |-> "differential", time |-> time, data |-> data])
    /\ outputs' = DifferentialDrain(outputs, time, data)
    /\ UNCHANGED << managerVars, benchVars >>

NextDemux ==
    \/ \E time \in BatchTimes :
          \E data \in SeqsUpTo(LoggedEvents(TimelyTags, time), MaxEvents - Consumed(replayed)) :
             timely_logging_demux(time, data)
    \/ \E time \in BatchTimes :
          \E data \in SeqsUpTo(LoggedEvents(DifferentialTags, time), MaxEvents - Consumed(replayed)) :
             differential_logging_demux(time, data)

SpecDemux == Init /\ [][NextDemux]_vars

\* ------------------------------------------------------------ tpchlike Collections
CollectionNames ==
    { "customers", "lineitems", "nations", "orders", "parts", "partsupps", "regions",
      "suppliers" }

\* The accessors, as what each does to Collections.used.
customers(u) == [u EXCEPT ![0] = TRUE]
lineitems(u) == [u EXCEPT ![1] = TRUE]
nations(u) == [u EXCEPT ![2] = TRUE]
orders(u) == [u EXCEPT ![3] = TRUE]
parts(u) == [u EXCEPT ![4] = TRUE]
\* partsupps copied from parts with its index left as it was.
partsupps_index_of_parts(u) == [u EXCEPT ![4] = TRUE]
partsupps(u) == [u EXCEPT ![5] = TRUE]
regions(u) == [u EXCEPT ![6] = TRUE]
suppliers(u) == [u EXCEPT ![7] = TRUE]

\* A caller's collections.<name>().
access(name) ==
    /\ used' = CASE name = "customers" -> customers(used)
                 [] name = "lineitems" -> lineitems(used)
                 [] name = "nations" -> nations(used)
                 [] name = "orders" -> orders(used)
                 [] name = "parts" -> parts(used)
                 [] name = "partsupps" -> partsupps(used)
                 [] name = "regions" -> regions(used)
                 [] name = "suppliers" -> suppliers(used)
    /\ accessed' = accessed \cup {name}
    /\ lastAccess' = name
    /\ UNCHANGED << managerVars, replayed, outputs >>

\* Arrangements::new(collections, probe): the accessors it calls, in its order.
Arrangements_new ==
    /\ used' = suppliers(regions(parts(orders(nations(customers(used))))))
    /\ accessed' = accessed \cup
                     {"customers", "nations", "orders", "parts", "regions", "suppliers"}
    /\ lastAccess' = "Arrangements::new"
    /\ UNCHANGED << managerVars, replayed, outputs >>

NextCollections ==
    \/ \E name \in CollectionNames : access(name)
    \/ Arrangements_new

SpecCollections == Init /\ [][NextCollections]_vars
\* ================================================================ claims
\* Every plan object a caller can ask with.
AllPlanObjs == [obj : 1 .. MaxPlanObjs, shape : Shapes]
\* The operations that hand traces to set_unkeyed.
SetsUnkeyed(op) == op \in {"set_unkeyed", "insert_input", "publish_timely_logging",
                           "publish_differential_logging"}

\* C1: a step that hands trace T to set_unkeyed for a plan (by set_unkeyed,
\* insert_input or publication) makes get_unkeyed of every plan object equal
\* in structure return T, whatever was cached under it before; and until a
\* shutdown no other step changes what get_unkeyed returns for that plan.
C1_CacheIdentity ==
    [][ \A p2 \in AllPlanObjs :
          IF p2.shape \in DOMAIN lastOp'.unkeyed
          THEN get_unkeyed(p2)' = lastOp'.unkeyed[p2.shape]
          ELSE lastOp'.op # "shutdown" => get_unkeyed(p2)' = get_unkeyed(p2) ]_vars

\* A set_unkeyed has replaced the trace of an earlier one for the same plan,
\* and a second plan object of that structure gets the new trace.
C1_Witness ==
    /\ lastOp.op = "set_unkeyed"
    /\ lastOp.oldTrace # NoTrace
    /\ \E p2 \in AllPlanObjs :
         /\ p2.obj = 2
         /\ p2.shape \in DOMAIN lastOp.unkeyed
         /\ get_unkeyed(p2) = lastOp.unkeyed[p2.shape]
         /\ get_unkeyed(p2) # lastOp.oldTrace

\* A miss stays a miss over a step that does not hand that plan to
\* set_unkeyed, respectively that (plan, columns) to set_keyed.
C2_MissStep ==
    \A p \in AllPlanObjs :
        /\ get_unkeyed(p) = NoTrace /\ p.shape \notin DOMAIN lastOp'.unkeyed
             => get_unkeyed(p)' = NoTrace
        /\ \A keys \in Columns :
             get_keyed(p, keys) = NoTrace /\ <<p.shape, keys>> \notin DOMAIN lastOp'.keyed
               => get_keyed(p, keys)' = NoTrace

\* C2: get_unkeyed(p) misses for every plan never handed to set_unkeyed
\* (directly, by insert_input or by publication) and get_keyed(p, cols) for
\* every (p, cols) never handed to set_keyed: a new manager misses on all of
\* them and a miss stays a miss over every step on other keys; the miss is the
\* value NoTrace, no halt.
C2_MissBeforeSet ==
    /\ \A p \in AllPlanObjs :
         get_unkeyed(p) = NoTrace /\ \A keys \in Columns : get_keyed(p, keys) = NoTrace
    /\ [][C2_MissStep]_vars

\* Plans have been set, one unkeyed and one keyed, and another plan and the
\* other column sequence of the keyed plan still miss.
C2_Witness ==
    /\ \E p \in AllPlanObjs : get_unkeyed(p) # NoTrace
    /\ \E p \in AllPlanObjs : get_unkeyed(p) = NoTrace
    /\ \E p \in AllPlanObjs :
         get_keyed(p, <<0, 1>>) # NoTrace /\ get_keyed(p, <<1, 0>>) = NoTrace

\* What a set_keyed step, and what a step that sets unkeyed entries, changes.
C3_KeyedStep ==
    /\ lastOp'.op = "set_keyed" =>
         /\ \A p \in AllPlanObjs, keys \in Columns :
              IF <<p.shape, keys>> \in DOMAIN lastOp'.keyed
              THEN get_keyed(p, keys)' = lastOp'.keyed[<<p.shape, keys>>]
              ELSE get_keyed(p, keys)' = get_keyed(p, keys)
         /\ \A p \in AllPlanObjs : get_unkeyed(p)' = get_unkeyed(p)
    /\ SetsUnkeyed(lastOp'.op) =>
         \A p \in AllPlanObjs, keys \in Columns : get_keyed(p, keys)' = get_keyed(p, keys)

\* C3: a set_keyed(p, c, T) step makes get_keyed(p, c) return T, changes
\* get_keyed for no other plan or column sequence (the same indices in another
\* order being another sequence) and changes no get_unkeyed; a step that sets
\* unkeyed entries changes no get_keyed.
C3_KeyedAddress == [][C3_KeyedStep]_vars

\* A set_keyed has just stored a trace under <<1, 0>> for a plan whose <<0, 1>>
\* entry holds another trace, next to an unkeyed entry.
C3_Witness ==
    /\ lastOp.op = "set_keyed"
    /\ \E p \in AllPlanObjs :
         /\ <<p.shape, <<1, 0>> >> \in DOMAIN lastOp.keyed
         /\ get_keyed(p, <<1, 0>>) = lastOp.keyed[<<p.shape, <<1, 0>> >>]
         /\ get_keyed(p, <<0, 1>>) # NoTrace
         /\ get_keyed(p, <<0, 1>>) # get_keyed(p, <<1, 0>>)
    /\ inputs # EmptyMap

\* C4: every trace the cache holds, unkeyed or keyed, whichever operation
\* installed it, has the empty distinguish frontier.
C4_EmptyHorizon ==
    \A t \in Cached(TraceManager) : traceState[t].through = EmptyFrontier

\* The cache holds a trace of each origin: an input's, a published log's and
\* a keyed one.
C4_Witness ==
    /\ sessions # EmptyMap
    /\ \E t \in Values(inputs) : IsUnkeyed(t)
    /\ \E t \in Values(inputs) : ~ IsUnkeyed(t)
    /\ arrangements # EmptyMap

\* Every session is at time t; the advance frontier of every cached trace is [t].
SessionsAt(t) == \A n \in DOMAIN sessions : sessions[n].time = t
TracesAt(t) == \A tr \in Cached(TraceManager) : traceState[tr].advance = Frontier(t)

\* C5: when advance_time(t) has returned, every session is at time t and the
\* advance frontier of every cached trace, unkeyed and keyed, is [t].
C5_AllAdvanced ==
    lastOp.op = "advance_time" => SessionsAt(lastOp.time) /\ TracesAt(lastOp.time)

\* advance_time has returned for a time above the least, on a manager that
\* holds a session, an unkeyed trace and a keyed trace.
C5_Witness ==
    /\ lastOp.op = "advance_time"
    /\ lastOp.time > 0
    /\ sessions # EmptyMap
    /\ inputs # EmptyMap
    /\ arrangements # EmptyMap

\* The manager holds a session or a trace.
Holding == sessions # EmptyMap \/ Cached(TraceManager) # {}
\* A call on a manager that holds something returns only for a time not below
\* the time of the last call that returned.
C6_Returns == pc # "idle" /\ pc' = "idle" /\ Holding => advT >= lastTime
\* A call halts only for a time below the time of the last call that returned.
C6_Halts == pc # "halted" /\ pc' = "halted" => advT < lastTime
\* No step moves a session or a trace to an earlier time.
C6_NotBackwards ==
    /\ \A n \in DOMAIN sessions \cap DOMAIN sessions' :
         sessions'[n].id = sessions[n].id => sessions'[n].time >= sessions[n].time
    /\ \A t \in DOMAIN traceState \cap DOMAIN traceState' :
         FrontierLessEqual(traceState[t].advance, traceState'[t].advance)

\* C6: advancing to rising times succeeds, an advance_time(t) with t below the
\* time the manager was last advanced to is rejected (it halts, it does not
\* return) whatever the manager holds, and no entity moves backwards.
C6_MonotonicAdvance == [][C6_Returns /\ C6_Halts /\ C6_NotBackwards]_vars

\* The owned entities are as the advance_time call found them.
Untouched ==
    /\ \A n \in DOMAIN sessions : sessions[n].time = before.sessions[n].time
    /\ traceState = before.traces

\* C7: in every state seen from outside a call (the manager idle, or left by a
\* call that halted) the entities the manager owns have either all been
\* advanced to the time of the call or are all as the call found them.
C7_AtomicEpoch ==
    pc \in {"idle", "halted"} /\ advT # NoTime =>
        \/ SessionsAt(advT) /\ TracesAt(advT)
        \/ Untouched

\* No session, and every lookup misses.
Empty ==
    /\ sessions = EmptyMap
    /\ \A p \in AllPlanObjs :
         get_unkeyed(p) = NoTrace /\ \A keys \in Columns : get_keyed(p, keys) = NoTrace
\* After shutdown: empty, idle, and a next call is taken.
C8_AfterShutdown ==
    lastOp.op = "shutdown" =>
        /\ Empty
        /\ pc = "idle"
        /\ calls < MaxCalls =>
             ENABLED insert_input("a", FreshSession, FreshTrace("unkeyed"))
\* A shutdown right after a shutdown finds nothing and changes nothing.
C8_Again ==
    lastOp.op = "shutdown" /\ lastOp'.op = "shutdown" =>
        /\ lastOp'.held = 0
        /\ << sessions, inputs, arrangements, traceState >>'
             = << sessions, inputs, arrangements, traceState >>

\* C8: after shutdown, from any state, the manager holds no session and every
\* get_unkeyed and get_keyed misses; a second shutdown leaves the same empty
\* state; the manager takes calls again afterwards.
C8_ShutdownClears == [] C8_AfterShutdown /\ [][C8_Again]_vars

\* A shutdown has emptied a manager that held sessions and traces.
C8_Witness ==
    /\ lastOp.op = "shutdown"
    /\ lastOp.held >= 3

\* C9: when insert_input(name, session, trace) has returned, the session
\* under name is the one given and get_unkeyed(Source(name)) is the trace
\* given: both parts are registered in the state the call leaves.
C9_InsertBoth ==
    lastOp.op = "insert_input" =>
        /\ lastOp.name \in DOMAIN sessions
        /\ sessions[lastOp.name].id = lastOp.session
        /\ \A p \in AllPlanObjs :
             p.shape = Source(lastOp.name) =>
                 /\ get_unkeyed(p) # NoTrace
                 /\ get_unkeyed(p) = lastOp.unkeyed[Source(lastOp.name)]

\* insert_input has returned for a new name on a manager that already held
\* other entries.
C9_Witness ==
    /\ lastOp.op = "insert_input"
    /\ lastOp.held >= 2
    /\ lastOp.oldSession = NoSession

\* An insert_input step under a name in use halts and leaves what was there.
C10_Step ==
    lastOp'.op = "insert_input" /\ lastOp'.name \in DOMAIN sessions =>
        /\ pc' = "halted"
        /\ sessions'[lastOp'.name] = sessions[lastOp'.name]
        /\ inputs'[Source(lastOp'.name)] = inputs[Source(lastOp'.name)]

\* C10, as stated: registering an input under a name in use fails loudly, and
\* the session and the trace that were registered under the name stay.
C10_DuplicateFails == [][C10_Step]_vars

\* C10, as amended: registering an input under a name in use returns normally
\* and overwrites: the session under the name is the one given, the session
\* that was there is no longer held, and the trace of Source(name) is the one
\* given.
C10_DuplicateOverwrites ==
    lastOp.op = "insert_input" /\ lastOp.oldSession # NoSession =>
        /\ pc = "idle"
        /\ sessions[lastOp.name].id = lastOp.session
        /\ lastOp.oldSession \notin Owned
        /\ inputs[Source(lastOp.name)] = lastOp.unkeyed[Source(lastOp.name)]

\* insert_input has returned for a name that was in use, with a trace other
\* than the one that was cached for it.
C10_Witness ==
    /\ lastOp.op = "insert_input"
    /\ lastOp.oldSession # NoSession
    /\ lastOp.oldTrace # NoTrace
    /\ lastOp.oldTrace # inputs[Source(lastOp.name)]

\* The well-known name of each telemetry category.
TimelyCategory ==
    [ n \in TimelyLogNames |->
        CASE n = "logs/timely/operates" -> "Operates"
          [] n = "logs/timely/channels" -> "Channels"
          [] n = "logs/timely/schedule" -> "Schedule"
          [] n = "logs/timely/messages" -> "Messages" ]
DifferentialCategory ==
    [ n \in DifferentialLogNames |->
        CASE n = "logs/differential/arrange/batch" -> "Batch"
          [] n = "logs/differential/arrange/merge" -> "Merge" ]
\* A publication step files, under each name of cat, the trace this call
\* arranged from the output of that name's category, and adds no other key.
PublishedStep(op, cat) ==
    lastOp'.op = op =>
        /\ \A n \in DOMAIN cat, o \in 1 .. MaxPlanObjs :
             get_unkeyed([obj |-> o, shape |-> Source(n)])' = << cat[n], calls' >>
        /\ DOMAIN inputs' = DOMAIN inputs \cup {Source(n) : n \in DOMAIN cat}
        /\ \A k \in DOMAIN inputs : k.name \notin DOMAIN cat => inputs'[k] = inputs[k]
        /\ arrangements' = arrangements

\* C14: a publish_timely_logging step leaves, under Source of each of the four
\* logs/timely names, the trace arranged by this call from the output of that
\* name's category, a publish_differential_logging step the same for batch and
\* merge; the step adds no other key and changes no other entry.
C14_PublishRegisters ==
    [][ /\ PublishedStep("publish_timely_logging", TimelyCategory)
        /\ PublishedStep("publish_differential_logging", DifferentialCategory) ]_vars

\* Both kinds of telemetry have been published on a manager that held an input.
C14_Witness ==
    /\ lastOp.op = "publish_differential_logging"
    /\ sessions # EmptyMap
    /\ inputs[Source("logs/differential/arrange/merge")] = << "Merge", calls >>
    /\ Source("logs/timely/schedule") \in DOMAIN inputs
    /\ inputs[Source("logs/timely/schedule")][1] = "Schedule"

\* C18: in every state the manager's operations reach, every session name
\* held has a cached unkeyed trace under Source of that name.
C18_SessionHasTrace ==
    \A n \in DOMAIN sessions : get_unkeyed([obj |-> 1, shape |-> Source(n)]) # NoTrace

\* A session is held whose trace a later set_unkeyed replaced, next to a trace
\* of another name that has no session.
C18_Witness ==
    /\ lastOp.op = "set_unkeyed"
    /\ lastOp.oldTrace # NoTrace
    /\ \E n \in DOMAIN sessions : Source(n) \in DOMAIN lastOp.unkeyed
    /\ \E n \in Names : n \notin DOMAIN sessions /\ Source(n) \in DOMAIN inputs

SessionBefore(id) ==
    { before.sessions[n] : n \in { m \in DOMAIN before.sessions : before.sessions[m].id = id } }
\* What the engine has from session id once the call has flushed it: what it
\* had, then what the session had buffered, in order.
ExpectedFrom(id) ==
    Received(before.engine, id) \o
      (IF SessionBefore(id) = {} THEN << >>
       ELSE (CHOOSE x \in SessionBefore(id) : TRUE).buffer)
\* InputManager::advance_time has returned inside Manager::advance_time.
InputsReturned == (pc = "sessions" /\ todo = {}) \/ pc = "arrangements"

\* C15: when InputManager::advance_time(t) has returned, every session is at
\* time t with an empty buffer, and the engine has from every session exactly
\* what it had before the call followed by what the session had buffered:
\* nothing lost, nothing twice.
C15_FlushAll ==
    InputsReturned =>
        /\ \A n \in DOMAIN sessions :
             sessions[n].time = advT /\ sessions[n].buffer = << >>
        /\ \A id \in 1 .. calls : Received(engine, id) = ExpectedFrom(id)

\* InputManager::advance_time has returned after flushing a session that held
\* two updates, next to a session that held none.
C15_Witness ==
    /\ InputsReturned
    /\ \E n \in DOMAIN before.sessions : Len(before.sessions[n].buffer) = 2
    /\ \E n \in DOMAIN before.sessions : before.sessions[n].buffer = << >>
    /\ \E n \in DOMAIN sessions : Len(Received(engine, sessions[n].id)) = 2

\* A step of TraceManager::advance_time.
TraceStep == lastOp'.op \in {"advance_time:inputs", "advance_time"}
                \/ (lastOp'.op = "advance_time:halt" /\ todo = {})

\* C16: a step of TraceManager::advance_time(t) leaves the keys of both maps
\* as they are and, for every cached trace, every record and every time at or
\* after t, leaves what the trace can show as the record's multiplicity.
C16_KeepsCurrent ==
    [][ TraceStep =>
          /\ DOMAIN inputs' = DOMAIN inputs
          /\ KeyedEntries' = KeyedEntries
          /\ \A tr \in Cached(TraceManager), r \in Records, t \in Times :
               t >= advT =>
                 Accumulations(traceState', engine', tr, r, t)
                   = Accumulations(traceState, engine, tr, r, t) ]_vars

\* advance_time has returned for a time above the least on a manager whose
\* input trace holds an update of an earlier time, next to a keyed trace.
C16_Witness ==
    /\ lastOp.op = "advance_time"
    /\ lastOp.time > 0
    /\ arrangements # EmptyMap
    /\ \E tr \in Values(inputs) :
         /\ Collection(engine, tr) # << >>
         /\ Collection(engine, tr)[1][2] < lastOp.time
         /\ Accumulations(traceState, engine, tr, "r", lastOp.time) = {1}

\* The trace installed for the input under name n is the one arranged from
\* the session now under n.
OwnTrace(n) ==
    /\ Source(n) \in DOMAIN inputs
    /\ inputs[Source(n)] = << "unkeyed", sessions[n].id >>

\* C17, as stated: when advance_time has returned, the trace installed for an
\* input shows, for every record and at every time, the sum of the diffs of
\* the updates made on the session up to that time: 1 at the times from a +1
\* on, 0 from the time of the -1 on, also at times the manager has passed.
C17_RoundTripAllTimes ==
    lastOp.op = "advance_time" =>
        \A n \in DOMAIN sessions : OwnTrace(n) =>
            \A r \in Records, t \in Times :
                Accumulations(traceState, engine, inputs[Source(n)], r, t)
                  = { Multiplicity(sessions[n].made, r, t) }

\* C17, as amended: when advance_time(T) has returned, the trace installed for
\* an input shows, for every record and at every time from T on, the sum of
\* the diffs of the updates made on the session up to that time.
C17_RoundTrip ==
    lastOp.op = "advance_time" =>
        \A n \in DOMAIN sessions : OwnTrace(n) =>
            \A r \in Records, t \in Times :
                t >= lastOp.time =>
                    Accumulations(traceState, engine, inputs[Source(n)], r, t)
                      = { Multiplicity(sessions[n].made, r, t) }

\* A +1 and, at a later time, a -1 have been made for a record, advance_time
\* has returned after each, and the trace shows multiplicity 0.
C17_Witness ==
    /\ lastOp.op = "advance_time"
    /\ \E n \in DOMAIN sessions :
         /\ OwnTrace(n)
         /\ Len(sessions[n].made) = 2
         /\ sessions[n].made[1][3] = 1 /\ sessions[n].made[2][3] = -1
         /\ sessions[n].made[1][2] < sessions[n].made[2][2]
         /\ Accumulations(traceState, engine, inputs[Source(n)], "r", lastOp.time) = {0}

\* C19: inside a call of Manager::advance_time(t), and in the state it leaves
\* when it halts, a cached trace differs from what the call found only when
\* every owned session is at time t with an empty buffer.
C19_SessionsFirst ==
    pc # "idle" /\ (\E tr \in Cached(TraceManager) : traceState[tr] # before.traces[tr]) =>
        \A n \in DOMAIN sessions : sessions[n].time = advT /\ sessions[n].buffer = << >>

\* The call has advanced a cached trace after it advanced and flushed a
\* session that was at an earlier time with an update buffered.
C19_Witness ==
    /\ pc = "arrangements"
    /\ \E tr \in Cached(TraceManager) : traceState[tr] # before.traces[tr]
    /\ \E n \in DOMAIN sessions :
         /\ before.sessions[n].time < advT
         /\ before.sessions[n].buffer # << >>

\* The events of the batches consumed, in order of arrival, each with the
\* time of the batch that delivered it.
RECURSIVE Arrived(_)
Arrived(batches) ==
    IF batches = << >> THEN << >>
    ELSE [ i \in 1 .. Len(Head(batches).data) |->
             [ batch |-> Head(batches).time, time |-> Head(batches).data[i][1],
               datum |-> Head(batches).data[i][3] ] ]
         \o Arrived(Tail(batches))
\* The arrived events of one category.
ArrivedOf(c) == SelectSeq(Arrived(replayed), LAMBDA e : e.datum.tag = c)

\* C12: for every sequence of batches consumed, the output of each category
\* holds one record for each event of that category that arrived, in order of
\* arrival, the event's flat record, and nothing else: no event appears
\* twice or in another output, and the events of other categories appear in
\* no output.
C12_DemuxPartition ==
    \A c \in Categories :
        /\ Len(outputs[c]) = Len(ArrivedOf(c))
        /\ \A i \in 1 .. Len(outputs[c]) :
             outputs[c][i].data[1] = << c, ArrivedOf(c)[i].datum.payload >>

\* Batches of both kinds have been consumed, with a matched event in each and
\* an event of another category.
C12_Witness ==
    /\ Len(replayed) = 2
    /\ outputs["Schedule"] # << >>
    /\ outputs["Merge"] = << >>
    /\ \E e \in {Arrived(replayed)[i] : i \in 1 .. Len(Arrived(replayed))} :
         e.datum.tag = "Unrelated"

\* C13, as stated: every record emitted carries multiplicity +1 and the time
\* of the batch that delivered its event, and of two events in one output the
\* one of the earlier batch is not emitted at a later time.
C13_BatchTime ==
    \A c \in Categories :
        /\ \A i \in 1 .. Len(outputs[c]) :
             /\ outputs[c][i].data[3] = 1
             /\ outputs[c][i].data[2] = ArrivedOf(c)[i].batch
        /\ \A i, j \in 1 .. Len(outputs[c]) :
             ArrivedOf(c)[i].batch < ArrivedOf(c)[j].batch =>
                 outputs[c][i].data[2] <= outputs[c][j].data[2]

\* C13, as amended: every record emitted carries multiplicity +1 and the time
\* its own event carries, and is sent in a message at the time of the batch
\* that delivered the event.
C13_EventTime ==
    \A c \in Categories :
        \A i \in 1 .. Len(outputs[c]) :
            /\ outputs[c][i].data[3] = 1
            /\ outputs[c][i].data[2] = ArrivedOf(c)[i].time
            /\ outputs[c][i].time = ArrivedOf(c)[i].batch

\* A record has been emitted for an event that carries a later time than the
\* batch that delivered it, after a batch of another time.
C13_Witness ==
    /\ Len(replayed) = 2
    /\ replayed[1].time # replayed[2].time
    /\ \E m \in {outputs["Batch"][i] : i \in 1 .. Len(outputs["Batch"])} : m.data[2] > m.time

\* The index of each collection in used().
IndexOf ==
    [ n \in CollectionNames |->
        CASE n = "customers" -> 0 [] n = "lineitems" -> 1 [] n = "nations" -> 2
          [] n = "orders" -> 3 [] n = "parts" -> 4 [] n = "partsupps" -> 5
          [] n = "regions" -> 6 [] n = "suppliers" -> 7 ]

\* C20: used()[i] is true exactly when the accessor of collection i has been
\* called since construction; no step resets a flag; and a step that builds
\* Arrangements leaves the flags of customers, nations, orders, parts, regions
\* and suppliers set and those of lineitems and partsupps as they were.
C20_UsedFlags ==
    /\ [](\A n \in CollectionNames : used[IndexOf[n]] <=> n \in accessed)
    /\ [][ /\ \A i \in Indices : used[i] => used'[i]
           /\ lastAccess' = "Arrangements::new" =>
                /\ \A i \in {0, 2, 3, 4, 6, 7} : used'[i]
                /\ used'[1] = used[1] /\ used'[5] = used[5] ]_vars

\* Arrangements have been built on Collections whose partsupps had been
\* accessed and whose lineitems had not.
C20_Witness ==
    /\ lastAccess = "Arrangements::new"
    /\ used[5] /\ ~ used[1]
    /\ used[0] /\ used[7]
====
